---- MODULE Spec2Model ----
(***************************************************************************)
(* A model of uvfile (src/uvfile/__main__.py): the requirement data model, *)
(* tool equality, command synthesis, the UVFile codec and the sync run     *)
(* (install_from_uvfile).                                                  *)
(*                                                                         *)
(* Python values: None is the string None below (distinct from every       *)
(* program string, in particular from "None" = str(None) and from "").     *)
(* A piece of text that the program formats and later parses (one shell    *)
(* word of a UVFile line or of a command) is a Token: either a flag word   *)
(* ("--with") or a requirement-shaped word kept as the parts the text is   *)
(* made of (name part, extras part, version part, url part).  Formatting   *)
(* writes the parts as the f-strings of the code do; parsing reads them    *)
(* back as packaging.requirements.Requirement does.                        *)
(***************************************************************************)
EXTENDS Integers, Sequences, FiniteSets, TLC

VARIABLES
    \* ---- one sync run (install_from_uvfile) ----
    uvfile,          \* the lines of the UVFile on disk, each a sequence of Tokens
    installed,       \* the package manager's installed tools, as get_installed_tools reads them
    reinstall,       \* --reinstall
    uninstall,       \* --uninstall
    strict,          \* --strict
    dry_run,         \* --dry-run
    pc,              \* position of the run in install_from_uvfile
    installed_tools, \* local: result of get_installed_tools
    uvfile_tools,    \* local: result of collect_tool_metadata
    tools_to_remove, \* local: names still to be visited by the uninstall loop
    idx,             \* local: index of the install loop in uvfile_tools
    calls,           \* log of commands printed ("print") or handed to subprocess.run ("run")
    run_no,          \* 1 for the first sync run, 2 for a repeated one
    installed0,      \* history: installed state when the run started
    \* ---- tool equality (Tool.__eq__) ----
    lhs, rhs,        \* the two tools compared (declared tool, installed tool)
    eq_state,        \* "new" before the comparison, "done" after
    eq_result,       \* result of lhs == rhs
    \* ---- codec round trip (write_uvfile, collect_tool_metadata) ----
    tools_in,        \* the collection handed to write_uvfile
    written,         \* the lines write_uvfile produced
    decoded,         \* what collect_tool_metadata read back: [ok, tools]
    codec_state      \* "new", "written", "read"

vars == << uvfile, installed, reinstall, uninstall, strict, dry_run, pc,
           installed_tools, uvfile_tools, tools_to_remove, idx, calls, run_no,
           installed0, lhs, rhs, eq_state, eq_result,
           tools_in, written, decoded, codec_state >>

syncVars == << uvfile, installed, reinstall, uninstall, strict, dry_run, pc,
               installed_tools, uvfile_tools, tools_to_remove, idx, calls, run_no,
               installed0 >>
eqVars == << lhs, rhs, eq_state, eq_result >>
codecVars == << tools_in, written, decoded, codec_state >>

----------------------------------------------------------------------------
(* Bounds of the model *)

\* longest UVFile (in lines) a sync run is given
MaxLines == 2
\* largest number of installed tools a sync run starts from
MaxInstalled == 2
\* most overrides (--with / --with-editable) of one tool
MaxOverrides == 2
\* largest collection handed to write_uvfile
MaxTools == 2

----------------------------------------------------------------------------
(* Python values and strings *)

None == "<None>"

\* bool(x) for x a str or None
Truthy(x) == x # None /\ x # ""

\* x or ""
OrEmpty(x) == IF Truthy(x) THEN x ELSE ""

\* str(x) inside an f-string
Str(x) == IF x = None THEN "None" ELSE x

\* The strings of the model in Python's (code point) order.
StrOrder == << "", "3.11", "3.12", "<2,>=1.0", ">=1.0", ">=1.0,<2", ">=24",
               "None", "a", "b", "black", "git+https://h/x", "mypy", "ruff",
               "x", "y" >>

Rank(s) == CHOOSE i \in 1..Len(StrOrder) : StrOrder[i] = s

\* s < t on Python strings
StrLess(s, t) == Rank(s) < Rank(t)

SeqToSet(s) == { s[i] : i \in 1..Len(s) }

RECURSIVE InsertStr(_, _)
\* insert x into the sorted sequence s, after the elements that are <= x
InsertStr(s, x) ==
    IF s = << >> THEN << x >>
    ELSE IF StrLess(x, Head(s)) THEN << x >> \o s
    ELSE << Head(s) >> \o InsertStr(Tail(s), x)

RECURSIVE SortedStrs(_)
\* sorted(list of str)
SortedStrs(s) ==
    IF s = << >> THEN << >>
    ELSE InsertStr(SortedStrs(SubSeq(s, 1, Len(s) - 1)), s[Len(s)])

RECURSIVE SetToSortedSeq(_)
SetToSortedSeq(S) ==
    IF S = {} THEN << >>
    ELSE LET m == CHOOSE x \in S : \A y \in S : ~ StrLess(y, x)
         IN  << m >> \o SetToSortedSeq(S \ {m})

----------------------------------------------------------------------------
(* RequirementSpec and Tool *)

RequirementSpec(name, version, extras, url, editable) ==
    [ name |-> name, version |-> version, extras |-> extras, url |-> url,
      editable |-> editable ]

Tool(primary, additional, python_version) ==
    [ primary |-> primary, additional |-> additional,
      python_version |-> python_version ]

\* RequirementSpec.__eq__
RequirementSpec_eq(self, other) ==
    /\ self.name = other.name
    /\ self.version = other.version
    /\ SortedStrs(self.extras) = SortedStrs(other.extras)
    /\ self.url = other.url
    /\ self.editable = other.editable

\* the sort key of Tool.__eq__: (r.name or "", r.version or ""), compared as a tuple
KeyLess(r, s) ==
    \/ StrLess(OrEmpty(r.name), OrEmpty(s.name))
    \/ /\ OrEmpty(r.name) = OrEmpty(s.name)
       /\ StrLess(OrEmpty(r.version), OrEmpty(s.version))

RECURSIVE InsertByKey(_, _)
\* stable insertion: x goes after every element whose key is <= x's key
InsertByKey(s, x) ==
    IF s = << >> THEN << x >>
    ELSE IF KeyLess(x, Head(s)) THEN << x >> \o s
    ELSE << Head(s) >> \o InsertByKey(Tail(s), x)

RECURSIVE SortedByKey(_)
\* sorted(additional, key=...): Python's sort is stable
SortedByKey(s) ==
    IF s = << >> THEN << >>
    ELSE InsertByKey(SortedByKey(SubSeq(s, 1, Len(s) - 1)), s[Len(s)])

\* list == list on lists of RequirementSpec: same length, elements equal by __eq__
ListEq(s, t) ==
    /\ Len(s) = Len(t)
    /\ \A i \in 1..Len(s) : RequirementSpec_eq(s[i], t[i])

\* the comparison of the two interpreter pins in Tool.__eq__
PinEq(p, q) == p = q

\* Tool.__eq__
Tool_eq(self, other) ==
    IF ~ RequirementSpec_eq(self.primary, other.primary) THEN FALSE
    ELSE IF ~ ListEq(SortedByKey(self.additional), SortedByKey(other.additional))
         THEN FALSE
    ELSE PinEq(self.python_version, other.python_version)

----------------------------------------------------------------------------
(* Text *)

\* a flag word such as --with
Flag(s) == [ t |-> "flag", name |-> s, extras |-> << >>, version |-> "", url |-> "" ]

\* a word made of: name part, "[e1,e2]" part, version part, "@url" part
Text(name, extras, version, url) ==
    [ t |-> "text", name |-> name, extras |-> extras, version |-> version, url |-> url ]

\* the word is the empty string
IsEmptyWord(w) ==
    w.t = "text" /\ w.name = "" /\ w.extras = << >> /\ w.version = "" /\ w.url = ""

\* RequirementSpec.to_install_args
to_install_args(self, as_with) ==
    IF Truthy(self.url) THEN
        IF self.editable THEN
            IF as_with
            THEN << Flag("--with-editable"), Text(Str(self.name), << >>, "", self.url) >>
            ELSE << Text(Str(self.name), << >>, "", self.url), Flag("--editable") >>
        ELSE
            IF as_with
            THEN << Flag("--with"), Text(Str(self.name), << >>, "", self.url) >>
            ELSE << Text(Str(self.name), << >>, "", self.url) >>
    ELSE
        LET base == Text(OrEmpty(self.name), self.extras, OrEmpty(self.version), "")
        IN  IF as_with THEN << Flag("--with"), base >> ELSE << base >>

RECURSIVE WithArgs(_)
\* the loop of Tool.install_command over self.additional
WithArgs(additional) ==
    IF additional = << >> THEN << >>
    ELSE to_install_args(Head(additional), TRUE) \o WithArgs(Tail(additional))

\* Tool.install_command
install_command(self, force) ==
    to_install_args(self.primary, FALSE)
    \o WithArgs(self.additional)
    \o (IF Truthy(self.python_version)
        THEN << Flag("--python"), Text(self.python_version, << >>, "", "") >>
        ELSE << >>)
    \o (IF force THEN << Flag("--reinstall") >> ELSE << >>)

----------------------------------------------------------------------------
(* Reading text back: packaging.requirements.Requirement and argparse *)

\* a plain word (no extras, version or url part), e.g. "uv" or "3.12"
Word(s) == Text(s, << >>, "", "")

\* str(SpecifierSet(s)): the clauses of s, sorted and joined with ","
NormSpecifier(s) == IF s = ">=1.0,<2" THEN "<2,>=1.0" ELSE s

\* Requirement(word): name, extras (a set), specifier, url; raises
\* InvalidRequirement (ok = FALSE) when the word does not start with a name.
\* list(req.extras) is modelled in sorted order: every comparison of extras in
\* the program sorts them first.
Requirement(w) ==
    [ ok        |-> w.t = "text" /\ w.name # "",
      name      |-> w.name,
      extras    |-> SetToSortedSeq(SeqToSet(w.extras)),
      specifier |-> NormSpecifier(w.version),
      url       |-> IF w.url = "" THEN None ELSE w.url ]

\* the RequirementSpec collect_tool_metadata builds from a parsed Requirement
SpecOfRequirement(req, editable) ==
    RequirementSpec(req.name,
                    IF req.specifier # "" THEN req.specifier ELSE None,
                    req.extras, req.url, editable)

EmptyNamespace ==
    [ ok |-> TRUE, python |-> None, editable |-> FALSE,
      additional |-> << >>, additional_editable |-> << >> ]

RECURSIVE parse_args(_, _)
\* parser.parse_args(extra_args) of collect_tool_metadata, from namespace ns on:
\* --python V, --editable, --with R (append), --with-editable R (append);
\* anything else, or a missing value, is an error (argparse exits).  The value
\* of --python is kept as the word's name part: the model's UVFiles only put
\* plain words there.
parse_args(args, ns) ==
    IF ~ ns.ok \/ args = << >> THEN ns
    ELSE LET a == Head(args) IN
         IF a.t # "flag" THEN [ ns EXCEPT !.ok = FALSE ]
         ELSE IF a.name = "--editable"
              THEN parse_args(Tail(args), [ ns EXCEPT !.editable = TRUE ])
         ELSE IF a.name \in { "--python", "--with", "--with-editable" } THEN
              IF Len(args) < 2 \/ args[2].t # "text" THEN [ ns EXCEPT !.ok = FALSE ]
              ELSE LET v == args[2]
                       rest == SubSeq(args, 3, Len(args))
                   IN  IF a.name = "--python"
                       THEN parse_args(rest, [ ns EXCEPT !.python = v.name ])
                       ELSE IF a.name = "--with"
                       THEN parse_args(rest,
                                [ ns EXCEPT !.additional = Append(@, v) ])
                       ELSE parse_args(rest,
                                [ ns EXCEPT !.additional_editable = Append(@, v) ])
         ELSE [ ns EXCEPT !.ok = FALSE ]

\* shlex.split of the line text: the non-empty words, in order
shlex_split(line) == SelectSeq(line, LAMBDA w : ~ IsEmptyWord(w))

\* line.strip() is empty, or the line starts with "#"
IsSkippedLine(line) ==
    \/ shlex_split(line) = << >>
    \/ Head(shlex_split(line)).t = "comment"

\* the additional RequirementSpecs of one line: --with ones, then --with-editable ones
AdditionalOf(ns) ==
    [ i \in 1..Len(ns.additional) |->
        SpecOfRequirement(Requirement(ns.additional[i]), FALSE) ]
    \o [ i \in 1..Len(ns.additional_editable) |->
        SpecOfRequirement(Requirement(ns.additional_editable[i]), TRUE) ]

\* the body of the loop of collect_tool_metadata for one line that is not skipped:
\* [ok, tool]; ok = FALSE when Requirement(...) or parse_args raises
ParseLine(line) ==
    LET words == shlex_split(line)
        req   == Requirement(Head(words))
        ns    == parse_args(Tail(words), EmptyNamespace)
        allok == /\ req.ok
                 /\ ns.ok
                 /\ \A i \in 1..Len(ns.additional) : Requirement(ns.additional[i]).ok
                 /\ \A i \in 1..Len(ns.additional_editable) :
                        Requirement(ns.additional_editable[i]).ok
    IN  [ ok   |-> allok,
          tool |-> IF allok
                   THEN Tool(SpecOfRequirement(req, ns.editable), AdditionalOf(ns), ns.python)
                   ELSE Tool(RequirementSpec(None, None, << >>, None, FALSE), << >>, None) ]

\* a line of the UVFile that makes collect_tool_metadata raise
IsBadLine(line) == ~ IsSkippedLine(line) /\ ~ ParseLine(line).ok

RECURSIVE collect_lines(_, _)
\* the loop of collect_tool_metadata: stops at the first line that raises
collect_lines(lines, tools) ==
    IF lines = << >> THEN [ ok |-> TRUE, tools |-> tools ]
    ELSE IF IsSkippedLine(Head(lines)) THEN collect_lines(Tail(lines), tools)
    ELSE LET r == ParseLine(Head(lines))
         IN  IF ~ r.ok THEN [ ok |-> FALSE, tools |-> tools ]
             ELSE collect_lines(Tail(lines), Append(tools, r.tool))

RECURSIVE collect_lines_lenient(_, _)
\* a variant that drops the lines that do not parse instead of raising
collect_lines_lenient(lines, tools) ==
    IF lines = << >> THEN [ ok |-> TRUE, tools |-> tools ]
    ELSE IF IsSkippedLine(Head(lines)) \/ ~ ParseLine(Head(lines)).ok
         THEN collect_lines_lenient(Tail(lines), tools)
    ELSE collect_lines_lenient(Tail(lines), Append(tools, ParseLine(Head(lines)).tool))

\* a variant of collect_tool_metadata that skips bad lines
collect_tool_metadata_lenient(lines) == collect_lines_lenient(lines, << >>)

\* collect_tool_metadata(uvfile_path): [ok, tools]
collect_tool_metadata(lines) == collect_lines(lines, << >>)

\* the header write_uvfile puts before the tools: a comment line and a blank line
Header == << << [ t |-> "comment", name |-> "# UVFile: Auto-generated file to track installed uv tools",
                  extras |-> << >>, version |-> "", url |-> "" ] >>, << >> >>

\* write_uvfile(tools, uvfile_path): the lines of the file written
write_uvfile(tools) ==
    Header \o [ i \in 1..Len(tools) |-> install_command(tools[i], FALSE) ]

----------------------------------------------------------------------------
(* Receipts: parse_requirement and parse_uv_receipt *)

\* a requirement table of uv-receipt.toml; a missing key is None (extras: << >>)
ReceiptRequirement(name, specifier, extras, git, directory, editable) ==
    [ name |-> name, specifier |-> specifier, extras |-> extras, git |-> git,
      directory |-> directory, editable |-> editable ]

\* parse_requirement
parse_requirement(requirement) ==
    LET url == IF Truthy(requirement.git) THEN requirement.git
               ELSE IF Truthy(requirement.directory) THEN requirement.directory
               ELSE requirement.editable
    IN  RequirementSpec(requirement.name, requirement.specifier, requirement.extras,
                        url, Truthy(requirement.editable))

\* parse_uv_receipt, for a receipt that exists: [requirements, python]
parse_uv_receipt(receipt) ==
    Tool(parse_requirement(receipt.requirements[1]),
         [ i \in 1..(Len(receipt.requirements) - 1) |->
             parse_requirement(receipt.requirements[i + 1]) ],
         receipt.python)

----------------------------------------------------------------------------
(* The sync run: install_from_uvfile *)

\* all sequences over S of length at most n
BoundedSeq(S, n) == UNION { [ 1..k -> S ] : k \in 0..n }

\* {tool.primary.name for tool in tools}
names(tools) == { tools[i].primary.name : i \in 1..Len(tools) }

\* tools_to_remove: installed_names - uvfile_names, computed only under strict or uninstall
names_to_remove_all(installed_, declared, strict_, uninstall_) ==
    IF strict_ \/ uninstall_ THEN names(installed_) ELSE {}
names_to_remove(installed_, declared, strict_, uninstall_) ==
    IF strict_ \/ uninstall_ THEN names(installed_) \ names(declared) ELSE {}

\* next((t for t in installed_tools if t.primary.name == name), None): the index
\* of the first installed tool of that name, 0 for None
matching_installed_tool(installed_, name) ==
    IF \E i \in 1..Len(installed_) : installed_[i].primary.name = name
    THEN CHOOSE i \in 1..Len(installed_) :
            /\ installed_[i].primary.name = name
            /\ \A j \in 1..(i - 1) : installed_[j].primary.name # name
    ELSE 0

\* the condition under which the install loop skips a tool
should_skip(tool, installed_, reinstall_, strict_) ==
    LET m == matching_installed_tool(installed_, tool.primary.name)
    IN  /\ m # 0
        /\ Tool_eq(tool, installed_[m])
        /\ ~ (reinstall_ \/ strict_)

\* if dry_run: print the command, else: subprocess.run it
prints_never(dry) == FALSE
prints_only(dry) == dry

\* subprocess.run(..., check=True): a non-zero exit raises CalledProcessError,
\* which nothing catches; otherwise the run goes on at next
after_run_unchecked(ok, next) == next
after_run(ok, next) == IF ok THEN next ELSE "failed"

\* one entry of the log of commands
Call(kind, mode, target, pos, cmd, ok) ==
    [ kind |-> kind, mode |-> mode, target |-> target, pos |-> pos, cmd |-> cmd,
      ok |-> ok, run |-> run_no ]

\* what a successful "uv tool install" leaves: the tool as declared, in place of
\* whatever was installed under its name
ApplyInstall(installed_, tool) ==
    SelectSeq(installed_, LAMBDA t : t.primary.name # tool.primary.name) \o << tool >>

\* what a successful "uv tool uninstall name" leaves
ApplyUninstall(installed_, name) ==
    SelectSeq(installed_, LAMBDA t : t.primary.name # name)

\* the UVFile lines of the sync model
LineRuff == << Word("ruff") >>
LineRuffPinned == << Text("ruff", << >>, ">=1.0", "") >>
LineBlack == << Word("black"), Flag("--python"), Word("3.12") >>
LineBadFlag == << Word("mypy"), Flag("--frozen") >>
LineBadRequirement == << Text("", << >>, ">=1.0", "") >>
SyncLines == { LineRuff, LineRuffPinned, LineBlack, LineBadFlag, LineBadRequirement }

\* the installed tools of the sync model
SyncInstalled ==
    { Tool(RequirementSpec("ruff", None, << >>, None, FALSE), << >>, None),
      Tool(RequirementSpec("ruff", ">=1.0", << >>, None, FALSE), << >>, None),
      Tool(RequirementSpec("mypy", None, << >>, None, FALSE), << >>, None) }

EqIdle ==
    /\ lhs = Tool(RequirementSpec(None, None, << >>, None, FALSE), << >>, None)
    /\ rhs = lhs
    /\ eq_state = "idle"
    /\ eq_result = FALSE

CodecIdle ==
    /\ tools_in = << >>
    /\ written = << >>
    /\ decoded = [ ok |-> TRUE, tools |-> << >> ]
    /\ codec_state = "idle"

SyncIdle ==
    /\ uvfile = << >>
    /\ installed = << >>
    /\ reinstall = FALSE /\ uninstall = FALSE /\ strict = FALSE /\ dry_run = FALSE
    /\ pc = "idle"
    /\ installed_tools = << >>
    /\ uvfile_tools = << >>
    /\ tools_to_remove = {}
    /\ idx = 0
    /\ calls = << >>
    /\ run_no = 1
    /\ installed0 = << >>

\* the state when "uvfile sync" starts
Init ==
    /\ uvfile \in BoundedSeq(SyncLines, MaxLines)
    /\ installed \in BoundedSeq(SyncInstalled, MaxInstalled)
    /\ reinstall \in BOOLEAN /\ uninstall \in BOOLEAN /\ strict \in BOOLEAN
    /\ dry_run \in BOOLEAN
    /\ pc = "list"
    /\ installed_tools = << >>
    /\ uvfile_tools = << >>
    /\ tools_to_remove = {}
    /\ idx = 0
    /\ calls = << >>
    /\ run_no = 1
    /\ installed0 = installed
    /\ EqIdle /\ CodecIdle

\* line 245: installed_tools = get_installed_tools(...), whose "uv tool list" may fail
GetInstalledTools ==
    /\ pc = "list"
    /\ \E ok \in BOOLEAN :
        /\ calls' = Append(calls, Call("list", "run", "", 0,
                        << Word("uv"), Word("tool"), Word("list"), Flag("--show-paths") >>, ok))
        /\ installed_tools' = IF ok THEN installed ELSE installed_tools
        /\ pc' = after_run(ok, "collect")
    /\ UNCHANGED << uvfile, installed, reinstall, uninstall, strict, dry_run,
                    uvfile_tools, tools_to_remove, idx, run_no, installed0 >>
    /\ UNCHANGED eqVars /\ UNCHANGED codecVars

\* lines 246-252: uvfile_tools = collect_tool_metadata(...), then tools_to_remove
CollectToolMetadata ==
    /\ pc = "collect"
    /\ LET r == collect_tool_metadata(uvfile)
       IN  IF r.ok
           THEN /\ uvfile_tools' = r.tools
                /\ tools_to_remove' =
                       names_to_remove(installed_tools, r.tools, strict, uninstall)
                /\ pc' = "remove"
           ELSE /\ pc' = "parse_error"
                /\ UNCHANGED << uvfile_tools, tools_to_remove >>
    /\ UNCHANGED << uvfile, installed, reinstall, uninstall, strict, dry_run,
                    installed_tools, idx, calls, run_no, installed0 >>
    /\ UNCHANGED eqVars /\ UNCHANGED codecVars

\* lines 253-259: one iteration of the uninstall loop (a set: any order)
Uninstall ==
    /\ pc = "remove"
    /\ \E tool_name \in tools_to_remove :
        LET command == << Word("uv"), Word("tool"), Word("uninstall"), Word(tool_name) >>
        IN  /\ tools_to_remove' = tools_to_remove \ { tool_name }
            /\ IF prints_only(dry_run)
               THEN /\ calls' = Append(calls,
                                    Call("uninstall", "print", tool_name, 0, command, TRUE))
                    /\ UNCHANGED << installed, pc >>
               ELSE \E ok \in BOOLEAN :
                    /\ calls' = Append(calls,
                                    Call("uninstall", "run", tool_name, 0, command, ok))
                    /\ installed' = IF ok THEN ApplyUninstall(installed, tool_name)
                                    ELSE installed
                    /\ pc' = after_run(ok, "remove")
    /\ UNCHANGED << uvfile, reinstall, uninstall, strict, dry_run, installed_tools,
                    uvfile_tools, idx, run_no, installed0 >>
    /\ UNCHANGED eqVars /\ UNCHANGED codecVars

\* the uninstall loop is over (or was not entered): on to the install loop
EndRemove ==
    /\ pc = "remove"
    /\ tools_to_remove = {}
    /\ pc' = "install"
    /\ idx' = 1
    /\ UNCHANGED << uvfile, installed, reinstall, uninstall, strict, dry_run,
                    installed_tools, uvfile_tools, tools_to_remove, calls, run_no,
                    installed0 >>
    /\ UNCHANGED eqVars /\ UNCHANGED codecVars

\* lines 262-272: one iteration of the install loop that skips the tool
Skip ==
    /\ pc = "install"
    /\ idx <= Len(uvfile_tools)
    /\ should_skip(uvfile_tools[idx], installed_tools, reinstall, strict)
    /\ idx' = idx + 1
    /\ UNCHANGED << uvfile, installed, reinstall, uninstall, strict, dry_run, pc,
                    installed_tools, uvfile_tools, tools_to_remove, calls, run_no,
                    installed0 >>
    /\ UNCHANGED eqVars /\ UNCHANGED codecVars

\* lines 262-280: one iteration of the install loop that installs the tool
Install ==
    /\ pc = "install"
    /\ idx <= Len(uvfile_tools)
    /\ ~ should_skip(uvfile_tools[idx], installed_tools, reinstall, strict)
    /\ LET tool == uvfile_tools[idx]
           command == << Word("uv"), Word("tool"), Word("install") >>
                      \o install_command(tool, reinstall \/ strict)
       IN  /\ idx' = idx + 1
           /\ IF prints_only(dry_run)
              THEN /\ calls' = Append(calls,
                            Call("install", "print", tool.primary.name, idx, command, TRUE))
                   /\ UNCHANGED << installed, pc >>
              ELSE \E ok \in BOOLEAN :
                   /\ calls' = Append(calls,
                            Call("install", "run", tool.primary.name, idx, command, ok))
                   /\ installed' = IF ok THEN ApplyInstall(installed, tool) ELSE installed
                   /\ pc' = after_run(ok, "install")
    /\ UNCHANGED << uvfile, reinstall, uninstall, strict, dry_run, installed_tools,
                    uvfile_tools, tools_to_remove, run_no, installed0 >>
    /\ UNCHANGED eqVars /\ UNCHANGED codecVars

\* the install loop is over: install_from_uvfile returns
Return ==
    /\ pc = "install"
    /\ idx > Len(uvfile_tools)
    /\ pc' = "done"
    /\ UNCHANGED << uvfile, installed, reinstall, uninstall, strict, dry_run,
                    installed_tools, uvfile_tools, tools_to_remove, idx, calls, run_no,
                    installed0 >>
    /\ UNCHANGED eqVars /\ UNCHANGED codecVars

Next ==
    \/ GetInstalledTools
    \/ CollectToolMetadata
    \/ Uninstall
    \/ EndRemove
    \/ Skip
    \/ Install
    \/ Return

Spec == Init /\ [][Next]_vars

----------------------------------------------------------------------------
(* Repeating the sync run: the same UVFile against the state the first run left *)

SecondRun ==
    /\ pc = "done"
    /\ run_no = 1
    /\ run_no' = 2
    /\ pc' = "list"
    /\ installed_tools' = << >>
    /\ uvfile_tools' = << >>
    /\ tools_to_remove' = {}
    /\ idx' = 0
    /\ installed0' = installed
    /\ UNCHANGED << uvfile, installed, reinstall, uninstall, strict, dry_run, calls >>
    /\ UNCHANGED eqVars /\ UNCHANGED codecVars

\* the first run is not a dry run: its actions are applied
IdemInit == Init /\ ~ dry_run

IdemNext == Next \/ SecondRun

IdemSpec == IdemInit /\ [][IdemNext]_vars

----------------------------------------------------------------------------
(* Tool equality: a tool read from a UVFile line against a tool read from a receipt *)

RECURSIVE Flatten(_)
Flatten(ss) == IF ss = << >> THEN << >> ELSE Head(ss) \o Flatten(Tail(ss))

GitUrl == "git+https://h/x"

\* override arguments of a UVFile line
EqOverrideArgs ==
    { << Flag("--with"), Text("x", << "a" >>, "", "") >>,
      << Flag("--with"), Text("x", << "b" >>, "", "") >>,
      << Flag("--with"), Text("y", << >>, "", "") >>,
      << Flag("--with-editable"), Text("x", << >>, "", GitUrl) >> }

EqLines ==
    { << Word("ruff") >> \o Flatten(args) \o pin :
        args \in BoundedSeq(EqOverrideArgs, MaxOverrides),
        pin \in { << >>, << Flag("--python"), Word("3.12") >> } }

\* the tools collect_tool_metadata makes of those lines
DeclaredTools == { ParseLine(l).tool : l \in EqLines }

\* override entries of a receipt
EqReceiptOverrides ==
    { ReceiptRequirement("x", None, << "a" >>, None, None, None),
      ReceiptRequirement("x", None, << "b" >>, None, None, None),
      ReceiptRequirement("y", None, << >>, None, None, None),
      ReceiptRequirement("x", None, << >>, None, None, GitUrl) }

EqReceipts ==
    { [ requirements |-> << ReceiptRequirement("ruff", None, << >>, None, None, None) >> \o o,
        python |-> p ] :
        o \in BoundedSeq(EqReceiptOverrides, MaxOverrides),
        p \in { None, "", "3.12" } }

\* the tools parse_uv_receipt makes of those receipts
ObservedTools == { parse_uv_receipt(r) : r \in EqReceipts }

EqInit ==
    /\ lhs \in DeclaredTools
    /\ rhs \in ObservedTools
    /\ eq_state = "new"
    /\ eq_result = FALSE
    /\ SyncIdle /\ CodecIdle

\* tool == matching_installed_tool
Compare ==
    /\ eq_state = "new"
    /\ eq_result' = Tool_eq(lhs, rhs)
    /\ eq_state' = "done"
    /\ UNCHANGED << lhs, rhs >>
    /\ UNCHANGED syncVars /\ UNCHANGED codecVars

EqNext == Compare

EqSpec == EqInit /\ [][EqNext]_vars

----------------------------------------------------------------------------
(* The codec round trip: write_uvfile, then collect_tool_metadata *)

\* most overrides of one tool in the round trip
MaxCodecOverrides == 3

DirUrl == "/src/y"

\* primaries: registry (bare; with extras and version), version control (named;
\* unnamed; with extras), directory, editable
CodecPrimaries ==
    { RequirementSpec("ruff", None, << >>, None, FALSE),
      RequirementSpec("black", ">=24", << "a", "b" >>, None, FALSE),
      RequirementSpec("mypy", None, << >>, GitUrl, FALSE),
      RequirementSpec(None, None, << >>, GitUrl, FALSE),
      RequirementSpec("x", None, << "a" >>, GitUrl, FALSE),
      RequirementSpec("y", None, << >>, DirUrl, FALSE),
      RequirementSpec("a", None, << >>, DirUrl, TRUE) }

CodecOverrides ==
    { RequirementSpec("x", ">=1.0", << "a" >>, None, FALSE),
      RequirementSpec("y", None, << >>, DirUrl, TRUE) }

CodecTools ==
    { Tool(p, o, v) : p \in CodecPrimaries,
                      o \in BoundedSeq(CodecOverrides, MaxCodecOverrides),
                      v \in { None, "3.12" } }

UniqueNames(tools) ==
    \A i, j \in 1..Len(tools) : tools[i].primary.name = tools[j].primary.name => i = j

CodecInit ==
    /\ tools_in \in { c \in BoundedSeq(CodecTools, MaxTools) : UniqueNames(c) }
    /\ written = << >>
    /\ decoded = [ ok |-> TRUE, tools |-> << >> ]
    /\ codec_state = "new"
    /\ SyncIdle /\ EqIdle

\* write_uvfile(tools, path)
WriteUvfile ==
    /\ codec_state = "new"
    /\ written' = write_uvfile(tools_in)
    /\ codec_state' = "written"
    /\ UNCHANGED << tools_in, decoded >>
    /\ UNCHANGED syncVars /\ UNCHANGED eqVars

\* collect_tool_metadata(path) on the file just written
ReadUvfile ==
    /\ codec_state = "written"
    /\ decoded' = collect_tool_metadata(written)
    /\ codec_state' = "read"
    /\ UNCHANGED << tools_in, written >>
    /\ UNCHANGED syncVars /\ UNCHANGED eqVars

CodecNext == WriteUvfile \/ ReadUvfile

CodecSpec == CodecInit /\ [][CodecNext]_vars

----------------------------------------------------------------------------
(* Properties *)

InstallCalls(p) ==
    { i \in 1..Len(calls) : calls[i].kind = "install" /\ calls[i].pos = p }

\* the command ends with the force flag
HasForceFlag(cmd) == cmd[Len(cmd)] = Flag("--reinstall")

Removed == { calls[i].target : i \in { j \in 1..Len(calls) : calls[j].kind = "uninstall" } }

Installs == { calls[i].target : i \in { j \in 1..Len(calls) : calls[j].kind = "install" } }

HasDuplicateName(tools) ==
    \E i, j \in 1..Len(tools) : i # j /\ tools[i].primary.name = tools[j].primary.name

HasBadLine(lines) == \E i \in 1..Len(lines) : IsBadLine(lines[i])

\* C1: when a sync run completes, every declared tool was left untouched (no
\* install command) if and only if the installed collection contains a
\* same-named tool equal to it and neither reinstall nor strict is set;
\* otherwise exactly one install command was issued for it, with --reinstall
\* exactly when reinstall or strict is set.
PlanPartition ==
    pc = "done" =>
        \A p \in 1..Len(uvfile_tools) :
            LET tool == uvfile_tools[p]
                untouched == InstallCalls(p) = {}
                satisfied ==
                    \E j \in 1..Len(installed_tools) :
                        /\ installed_tools[j].primary.name = tool.primary.name
                        /\ Tool_eq(tool, installed_tools[j])
            IN  /\ untouched <=> (satisfied /\ ~ (reinstall \/ strict))
                /\ ~ untouched =>
                      /\ Cardinality(InstallCalls(p)) = 1
                      /\ \A i \in InstallCalls(p) :
                            HasForceFlag(calls[i].cmd) <=> (reinstall \/ strict)

\* C2: the names a completed sync run uninstalls are names(I) minus names(D)
\* when uninstall or strict is set and none otherwise; a declared name is never
\* uninstalled, and no name is both uninstalled and installed in one run.
RemovalSet ==
    /\ pc = "done" =>
          Removed = IF uninstall \/ strict
                    THEN names(installed0) \ names(uvfile_tools)
                    ELSE {}
    /\ Removed \cap names(uvfile_tools) = {}
    /\ Removed \cap Installs = {}

\* C2 witness: a completed run that uninstalled one tool, installed another and
\* left alone the uninstall of a tool that is both declared and installed
RemovalSetWitness ==
    /\ pc = "done"
    /\ Removed # {}
    /\ Installs # {}
    /\ names(installed0) \cap names(uvfile_tools) # {}

\* C3: after a completed first run under the default policy whose installs
\* were applied, a second run over the same UVFile issues no install command.
SecondRunInstallsNothing ==
    (run_no = 2 /\ ~ reinstall /\ ~ uninstall /\ ~ strict) =>
        \A i \in 1..Len(calls) : calls[i].run = 2 => calls[i].kind # "install"

IsPermutation(s, t) ==
    /\ Len(s) = Len(t)
    /\ \E f \in Permutations(1..Len(s)) : \A i \in 1..Len(s) : t[i] = s[f[i]]

\* C4: two tools with equal primary and equal interpreter pin whose override
\* lists are permutations of one another compare equal.
OverrideOrderInsensitive ==
    ( /\ eq_state = "done"
      /\ lhs.primary = rhs.primary
      /\ lhs.python_version = rhs.python_version
      /\ IsPermutation(lhs.additional, rhs.additional) )
    => eq_result = TRUE

Failed(i) == calls[i].mode = "run" /\ ~ calls[i].ok

RECURSIVE Replay(_, _)
\* the installed state after the successful commands of cs, applied in order
Replay(inst, cs) ==
    IF cs = << >> THEN inst
    ELSE LET c == Head(cs)
             next == IF c.mode = "run" /\ c.ok /\ c.kind = "install"
                     THEN ApplyInstall(inst, uvfile_tools[c.pos])
                     ELSE IF c.mode = "run" /\ c.ok /\ c.kind = "uninstall"
                     THEN ApplyUninstall(inst, c.target)
                     ELSE inst
         IN  Replay(next, Tail(cs))

\* C5: a command that exits non-zero is the last command of the run, which
\* has aborted; and the installed state is exactly what the commands that
\* succeeded made of the initial state (nothing is undone).
FailFastNoRollback ==
    /\ \A i \in 1..Len(calls) : Failed(i) => (i = Len(calls) /\ pc = "failed")
    /\ installed = Replay(installed0, calls)

\* C5 witness: an install or uninstall failed after another had succeeded and
\* changed the installed state, with a declared tool still not attempted
FailFastWitness ==
    /\ ~ dry_run
    /\ pc = "failed"
    /\ calls[Len(calls)].kind \in { "install", "uninstall" }
    /\ \E i \in 1..(Len(calls) - 1) :
          calls[i].kind \in { "install", "uninstall" } /\ calls[i].ok
    /\ installed # installed0
    /\ idx <= Len(uvfile_tools)

\* C6 as stated: a dry run invokes no external process, leaves the installed
\* state unchanged and never ends in an external-process error.
DryRunInvokesNothing ==
    dry_run =>
        /\ \A i \in 1..Len(calls) : calls[i].mode # "run"
        /\ installed = installed0
        /\ pc # "failed"

\* C6 amended: the only external process a dry run invokes is the listing of
\* the installed tools; it invokes no install or uninstall, leaves the installed
\* state unchanged, and ends in an external-process error only when that
\* listing exits non-zero.
DryRunOnlyLists ==
    dry_run =>
        /\ \A i \in 1..Len(calls) : calls[i].mode = "run" => calls[i].kind = "list"
        /\ installed = installed0
        /\ pc = "failed" => (calls[Len(calls)].kind = "list" /\ Len(calls) = 1)

\* C6 witness: a completed dry run that printed an uninstall and an install
DryRunWitness ==
    /\ dry_run
    /\ pc = "done"
    /\ \E i \in 1..Len(calls) : calls[i].kind = "uninstall" /\ calls[i].mode = "print"
    /\ \E i \in 1..Len(calls) : calls[i].kind = "install" /\ calls[i].mode = "print"

\* C7 as stated: a UVFile with a line that does not parse never gets to the
\* uninstall or install loops, and when the run aborts on it no external
\* process has been invoked.
BadLineAbortsBeforeAnyProcess ==
    HasBadLine(uvfile) =>
        /\ pc \notin { "remove", "install", "done" }
        /\ pc = "parse_error" => \A i \in 1..Len(calls) : calls[i].mode # "run"

\* C7 amended: a UVFile with a line that does not parse never gets to the
\* uninstall or install loops; no install or uninstall is invoked or printed
\* (the listing of the installed tools is the only process that has run) and
\* the installed state is unchanged.
BadLineAbortsBeforeAnyAction ==
    HasBadLine(uvfile) =>
        /\ pc \notin { "remove", "install", "done" }
        /\ \A i \in 1..Len(calls) : calls[i].kind = "list"
        /\ installed = installed0

\* C7 witness: the run aborted on a bad second line after a valid first line,
\* under strict, with tools installed that the valid line does not declare
BadLineWitness ==
    /\ pc = "parse_error"
    /\ Len(uvfile) = 2
    /\ ~ IsBadLine(uvfile[1]) /\ ~ IsSkippedLine(uvfile[1])
    /\ IsBadLine(uvfile[2])
    /\ strict /\ ~ dry_run
    /\ names(installed) \ names(<< ParseLine(uvfile[1]).tool >>) # {}

\* C8: reading back what write_uvfile wrote gives a collection of the same
\* length whose tools are equal, one by one, to the ones written.
RoundTrip ==
    codec_state = "read" =>
        /\ decoded.ok
        /\ Len(decoded.tools) = Len(tools_in)
        /\ \A i \in 1..Len(tools_in) : Tool_eq(tools_in[i], decoded.tools[i])

\* C9: a sync run whose declared or installed collection holds two tools of
\* the same name issues no install or uninstall and does not complete.
DuplicateNameIsFatal ==
    (HasDuplicateName(uvfile_tools) \/ HasDuplicateName(installed_tools)) =>
        /\ \A i \in 1..Len(calls) : calls[i].kind = "list"
        /\ pc # "done"

\* the pin comparison C10 describes: equal pins, or both absent or empty
ClaimedPinEq(p, q) == p = q \/ (~ Truthy(p) /\ ~ Truthy(q))

\* C10: for two tools with equal primaries and overrides, the comparison is
\* true exactly when the pins are equal or each is absent or empty.
PinComparison ==
    ( /\ eq_state = "done"
      /\ RequirementSpec_eq(lhs.primary, rhs.primary)
      /\ ListEq(SortedByKey(lhs.additional), SortedByKey(rhs.additional)) )
    => (eq_result <=> ClaimedPinEq(lhs.python_version, rhs.python_version))

====
